---------------------------- MODULE Spec2Model ----------------------------
(***************************************************************************)
(* A model of compare/compare.py: the build sources, the version           *)
(* comparator (evr, compare_builds) and the comparison engine (class       *)
(* Comparison).                                                            *)
(*                                                                         *)
(* Strings the code takes apart (version, release) are sequences of        *)
(* one-character strings.  Python's None is the empty tuple.  A dict is    *)
(* the sequence of its items [k, v] in insertion order.                    *)
(***************************************************************************)
EXTENDS Integers, Sequences, FiniteSets, TLC

VARIABLES
    tagged,     \* tagged[s]: what the backend of source s lists for its tag, in order
    cache,      \* cache[s]: BuildSource.cache of source s (a dict name -> build)
    made_cache, \* made_cache[s]: the constructor of source s ran make_cache
    pplace_packagelist,   \* Comparison.pplace_packagelist (a list)
    nosync_packagelist,   \* Comparison.nosync_packagelist (membership only)
    content,    \* the content list (module global, also Comparison.content)
    results,    \* Comparison.results (a dict package -> record)
    pc,         \* where the engine is: "idle", or inside compare_content
    idx,        \* position of compare_content in the list it iterates
    last,       \* the most recent call: what was called, what it returned
    prev,       \* the call before it, when both are compare_one of one package
    changes,    \* how many times a backend has changed so far
    build1,     \* comparator: first argument of compare_builds
    build2,     \* comparator: second argument of compare_builds
    cmp_ret,    \* comparator: <<n>>, n what compare_builds(build1, build2) returned
    evr_ret,    \* comparator: <<evr1, evr2>>, what evr returned inside that call
    script_args,       \* scripts: the arguments of the call and what the backend holds
    script_ret,        \* scripts: what the function under study returned
    script_calls       \* scripts: the changes the run asked of the backend

vars == <<tagged, cache, made_cache, pplace_packagelist, nosync_packagelist, content,
          results, pc, idx, last, prev, changes,
          build1, build2, cmp_ret, evr_ret,
          script_args, script_ret, script_calls>>

engineVars == <<tagged, cache, made_cache, pplace_packagelist, nosync_packagelist, content,
                results, pc, idx, last, prev, changes>>

cmpVars == <<build1, build2, cmp_ret, evr_ret>>

scriptVars == <<script_args, script_ret, script_calls>>

None == <<>>

-----------------------------------------------------------------------------
(* Characters and strings *)

\* The characters of the model's strings, in ASCII order.
Chars == <<".", "0", "1", "2", "3", "4", "9", "c", "e", "f", "l", "n">>

DigitChars == {"0", "1", "2", "3", "4", "9"}

IsDigit(c) == c \in DigitChars

IsAlnum(c) == c # "."

Ord(c) == CHOOSE i \in 1..Len(Chars) : Chars[i] = c

\* All strings over the characters cs of length at most n.
StringsUpTo(cs, n) == UNION {[1..k -> cs] : k \in 0..n}

HasAt(s, j, w) == j + Len(w) - 1 <= Len(s) /\ SubSeq(s, j, j + Len(w) - 1) = w

-----------------------------------------------------------------------------
(* re.sub(re.compile(".(fc|eln|el)[0-9]*"), "", release) *)

\* [0-9]* from position k of s: the position after the digits (greedy).
RECURSIVE DigitsEnd(_, _)
DigitsEnd(s, k) ==
    IF k <= Len(s) /\ IsDigit(s[k]) THEN DigitsEnd(s, k + 1) ELSE k

\* The pattern tried at position i of s: the position after the match, or 0
\* when it does not match there.  "." is any one character; the alternatives
\* are tried in the order fc, eln, el, and the first one that matches is kept,
\* since [0-9]* that follows never fails.
MatchEnd(s, i) ==
    IF i > Len(s) THEN 0
    ELSE IF HasAt(s, i + 1, <<"f", "c">>) THEN DigitsEnd(s, i + 3)
    ELSE IF HasAt(s, i + 1, <<"e", "l", "n">>) THEN DigitsEnd(s, i + 4)
    ELSE IF HasAt(s, i + 1, <<"e", "l">>) THEN DigitsEnd(s, i + 3)
    ELSE 0

\* re.sub scans left to right and drops every non-overlapping match.
RECURSIVE SubFrom(_, _)
SubFrom(s, i) ==
    IF i > Len(s) THEN <<>>
    ELSE LET e == MatchEnd(s, i)
         IN  IF e # 0 THEN SubFrom(s, e) ELSE <<s[i]>> \o SubFrom(s, i + 1)

re_sub(s) == SubFrom(s, 1)

-----------------------------------------------------------------------------
(* rpm.labelCompare *)

Sign(n) == IF n < 0 THEN -1 ELSE IF n > 0 THEN 1 ELSE 0

\* strcmp, as a sign.
RECURSIVE StrCmp(_, _)
StrCmp(a, b) ==
    IF a = <<>> /\ b = <<>> THEN 0
    ELSE IF a = <<>> THEN -1
    ELSE IF b = <<>> THEN 1
    ELSE IF a[1] # b[1] THEN Sign(Ord(a[1]) - Ord(b[1]))
    ELSE StrCmp(Tail(a), Tail(b))

RECURSIVE SkipSeparators(_)
SkipSeparators(s) ==
    IF s # <<>> /\ ~IsAlnum(s[1]) THEN SkipSeparators(Tail(s)) ELSE s

\* Length of the leading run of digits (isnum) or of letters (~isnum) of s.
RECURSIVE SegLen(_, _)
SegLen(s, isnum) ==
    IF s # <<>> /\ IsAlnum(s[1]) /\ (IsDigit(s[1]) <=> isnum)
    THEN 1 + SegLen(Tail(s), isnum)
    ELSE 0

RECURSIVE StripZeros(_)
StripZeros(s) == IF s # <<>> /\ s[1] = "0" THEN StripZeros(Tail(s)) ELSE s

\* Two segments of the same kind: numbers by value, letters by strcmp.
SegCmp(s1, s2, isnum) ==
    IF isnum
    THEN LET n1 == StripZeros(s1)
             n2 == StripZeros(s2)
         IN  IF Len(n1) # Len(n2) THEN Sign(Len(n1) - Len(n2)) ELSE StrCmp(n1, n2)
    ELSE StrCmp(s1, s2)

RECURSIVE rpmvercmp(_, _)
rpmvercmp(a, b) ==
    IF a = b THEN 0
    ELSE LET one == SkipSeparators(a)
             two == SkipSeparators(b)
         IN  IF one = <<>> \/ two = <<>>
             THEN IF one = <<>> /\ two = <<>> THEN 0
                  ELSE IF one # <<>> THEN 1 ELSE -1
             ELSE LET isnum == IsDigit(one[1])
                      n1 == SegLen(one, isnum)
                      n2 == SegLen(two, isnum)
                  IN  IF n2 = 0 THEN (IF isnum THEN 1 ELSE -1)
                      ELSE LET c == SegCmp(SubSeq(one, 1, n1), SubSeq(two, 1, n2), isnum)
                           IN  IF c # 0 THEN c
                               ELSE rpmvercmp(SubSeq(one, n1 + 1, Len(one)),
                                              SubSeq(two, n2 + 1, Len(two)))

\* An epoch string is a number.
EpochVal(e) == IF e = "0" THEN 0 ELSE 1

labelCompare(evr1, evr2) ==
    IF EpochVal(evr1[1]) # EpochVal(evr2[1])
    THEN Sign(EpochVal(evr1[1]) - EpochVal(evr2[1]))
    ELSE LET v == rpmvercmp(evr1[2], evr2[2])
         IN  IF v # 0 THEN v ELSE rpmvercmp(evr1[3], evr2[3])

-----------------------------------------------------------------------------
(* evr, compare_builds *)

\* A build record as the backend reports it.
Build(name, epoch, version, release) ==
    [name |-> name, nvr |-> <<name, version, release>>,
     epoch |-> epoch, version |-> version, release |-> release]

evr_keeps_release(build) == <<"0", build.version, build.release>>

evr_keeps_epoch(build) == <<build.epoch, build.version, re_sub(build.release)>>

evr(build) ==
    LET epoch == "0"
        version == build.version
        release == re_sub(build.release)
    IN  <<epoch, version, release>>

\* compare_builds in the convention of strcmp: any negative or positive
\* number, not only -1 and 1.
compare_builds_any_sign(b1, b2) ==
    LET evr1 == evr(b1)
        evr2 == evr(b2)
    IN  2 * labelCompare(evr1, evr2)

compare_builds(b1, b2) ==
    LET evr1 == evr(b1)
        evr2 == evr(b2)
    IN  labelCompare(evr1, evr2)

-----------------------------------------------------------------------------
(* Python dicts: the items in insertion order *)

DictHas(d, k) == \E i \in 1..Len(d) : d[i].k = k

DictGet(d, k) == d[CHOOSE i \in 1..Len(d) : d[i].k = k].v

DictKeys(d) == {d[i].k : i \in 1..Len(d)}

\* d[k] = v: a key already there keeps its place, a new key goes last.
DictPut(d, k, v) ==
    IF DictHas(d, k)
    THEN [i \in 1..Len(d) |-> IF d[i].k = k THEN [k |-> k, v |-> v] ELSE d[i]]
    ELSE Append(d, [k |-> k, v |-> v])

\* d = e in place of d.update(e)
DictUpdate_replacing(d, e) == e

\* d.update(e)
RECURSIVE DictUpdate(_, _)
DictUpdate(d, e) ==
    IF e = <<>> THEN d ELSE DictUpdate(DictPut(d, e[1].k, e[1].v), Tail(e))

InList(x, l) == \E i \in 1..Len(l) : l[i] = x

-----------------------------------------------------------------------------
(* The bounds and the values of the model *)

\* How often a backend may change what it lists during one run.
MaxBackendChanges == 1

\* Longest release stem tried by the comparator.
MaxBaseLen == 3

Pkgs == {"a", "b"}

PkgOrder == <<"a", "b">>

Srcs == {1, 2}

V1 == <<"1">>

V2 == <<"2">>

\* Source 1 builds for Fedora, source 2 for ELN.
DistTagOf(s) == IF s = 1 THEN <<".", "f", "c", "4", "0">>
                         ELSE <<".", "e", "l", "n", "1", "2", "1">>

\* The versions of package p that exist: two of "a", one of "b".
VersionsOf(p) == IF p = "a" THEN <<V1, V2>> ELSE <<V1>>

\* The builds source s may have of package p.
BuildsOf(s, p) ==
    {Build(p, "0", VersionsOf(p)[i], <<"3">> \o DistTagOf(s)) :
        i \in 1..Len(VersionsOf(p))}

\* Both sources always have a build of "b"; a build of "a" may be missing.
AlwaysBuilt(s, p) == p = "b"

\* What a backend may list for a tag with latest=True: at most one build per
\* package, in package order.
RECURSIVE ListingsFrom(_, _)
ListingsFrom(s, i) ==
    IF i > Len(PkgOrder) THEN {<<>>}
    ELSE LET rest == ListingsFrom(s, i + 1)
             p == PkgOrder[i]
         IN  (IF AlwaysBuilt(s, p) THEN {} ELSE rest)
             \cup {<<b>> \o r : b \in BuildsOf(s, p), r \in rest}

Listings(s) == ListingsFrom(s, 1)

\* Lists of distinct packages.
PkgLists == {l \in StringsUpTo(Pkgs, Cardinality(Pkgs)) :
                \A i, j \in 1..Len(l) : i # j => l[i] # l[j]}

\* What the placeholder views may list.
PlaceholderLists == {<<>>, <<"a">>, <<"b">>, <<"a", "b">>}

\* What lists/nosync.txt may hold.
NosyncLists == {{}, {"a"}}

-----------------------------------------------------------------------------
(* class BuildSource *)

\* infra.listTagged(tag, latest=True)
listTagged(s) == tagged[s]

\* infra.listTagged(tag, package=package, latest=True)
listTaggedPackage(s, package) ==
    SelectSeq(tagged[s], LAMBDA b : b.name = package)

\* The dict make_cache leaves in self.cache, given what listTagged returned.
RECURSIVE make_cache_from(_, _)
make_cache_from(c, builds) ==
    IF builds = <<>> THEN c
    ELSE make_cache_from(DictPut(c, builds[1].name, builds[1]), Tail(builds))

\* make_cache that keeps the first build listed under a name.
RECURSIVE make_cache_keep_first(_)
make_cache_keep_first(builds) ==
    IF builds = <<>> THEN <<>>
    ELSE LET c == make_cache_keep_first(SubSeq(builds, 1, Len(builds) - 1))
             b == builds[Len(builds)]
         IN  IF DictHas(c, b.name) THEN c ELSE DictPut(c, b.name, b)

make_cache(builds) == make_cache_from(<<>>, builds)

\* "if self.cache:" an empty dict is false.
UsesCache(s) == cache[s] # <<>>

\* get_build that takes the last build the backend reports.
get_build_last_reported(s, package) ==
    IF UsesCache(s)
    THEN IF DictHas(cache[s], package) THEN DictGet(cache[s], package) ELSE None
    ELSE LET builds == listTaggedPackage(s, package)
         IN  IF builds # <<>> THEN builds[Len(builds)] ELSE None

\* get_build when the backend answers.
get_build(s, package) ==
    IF UsesCache(s)
    THEN IF DictHas(cache[s], package) THEN DictGet(cache[s], package) ELSE None
    ELSE LET builds == listTaggedPackage(s, package)
         IN  IF builds # <<>> THEN builds[1] ELSE None

\* The remote queries one get_build on source s issues.
RemoteQueries(s) == IF UsesCache(s) THEN 0 ELSE 1

-----------------------------------------------------------------------------
(* class Comparison *)

status_swapped == [i \in -5..2 |->
             CASE i = -5 -> "PPLACE"
               [] i = -4 -> "NOSYNC"
               [] i = -3 -> "EXTRA"
               [] i = -2 -> "ERROR"
               [] i = -1 -> "OLD"
               [] i = 0  -> "SAME"
               [] i = 1  -> "NEW"
               [] i = 2  -> "NONE"]

status == [i \in -5..2 |->
             CASE i = -5 -> "PPLACE"
               [] i = -4 -> "NOSYNC"
               [] i = -3 -> "EXTRA"
               [] i = -2 -> "ERROR"
               [] i = -1 -> "NEW"
               [] i = 0  -> "SAME"
               [] i = 1  -> "OLD"
               [] i = 2  -> "NONE"]

Record(st, nvr1, nvr2) == [status |-> st, nvr1 |-> nvr1, nvr2 |-> nvr2]

NvrOf(build) == IF build = None THEN None ELSE build.nvr

\* classify with the no-sync list looked up before the placeholder list.
classify_nosync_first(package, b1, b2) ==
    IF package \in nosync_packagelist
    THEN [status |-> "NOSYNC", nvr1 |-> NvrOf(b1), nvr2 |-> NvrOf(b2)]
    ELSE IF InList(package, pplace_packagelist)
    THEN [status |-> "PPLACE", nvr1 |-> NvrOf(b1), nvr2 |-> NvrOf(b2)]
    ELSE IF b1 = None
    THEN [status |-> "ERROR", nvr1 |-> None, nvr2 |-> NvrOf(b2)]
    ELSE IF b2 = None
    THEN [status |-> "NONE", nvr1 |-> b1.nvr, nvr2 |-> None]
    ELSE [status |-> status[compare_builds(b1, b2)], nvr1 |-> b1.nvr, nvr2 |-> b2.nvr]

\* classify with the missing builds detected before the lists are looked up.
classify_builds_first(package, b1, b2) ==
    IF b1 = None
    THEN [status |-> "ERROR", nvr1 |-> None, nvr2 |-> NvrOf(b2)]
    ELSE IF b2 = None
    THEN [status |-> "NONE", nvr1 |-> b1.nvr, nvr2 |-> None]
    ELSE IF InList(package, pplace_packagelist)
    THEN [status |-> "PPLACE", nvr1 |-> NvrOf(b1), nvr2 |-> NvrOf(b2)]
    ELSE IF package \in nosync_packagelist
    THEN [status |-> "NOSYNC", nvr1 |-> NvrOf(b1), nvr2 |-> NvrOf(b2)]
    ELSE [status |-> status[compare_builds(b1, b2)], nvr1 |-> b1.nvr, nvr2 |-> b2.nvr]

\* classify with build2 tested before build1.
classify_none_first(package, b1, b2) ==
    IF InList(package, pplace_packagelist)
    THEN [status |-> "PPLACE", nvr1 |-> NvrOf(b1), nvr2 |-> NvrOf(b2)]
    ELSE IF package \in nosync_packagelist
    THEN [status |-> "NOSYNC", nvr1 |-> NvrOf(b1), nvr2 |-> NvrOf(b2)]
    ELSE IF b2 = None
    THEN [status |-> "NONE", nvr1 |-> NvrOf(b1), nvr2 |-> None]
    ELSE IF b1 = None
    THEN [status |-> "ERROR", nvr1 |-> None, nvr2 |-> b2.nvr]
    ELSE [status |-> status[compare_builds(b1, b2)], nvr1 |-> b1.nvr, nvr2 |-> b2.nvr]

\* classify with one test for both builds: either one missing is an ERROR.
classify_one_test(package, b1, b2) ==
    IF InList(package, pplace_packagelist)
    THEN [status |-> "PPLACE", nvr1 |-> NvrOf(b1), nvr2 |-> NvrOf(b2)]
    ELSE IF package \in nosync_packagelist
    THEN [status |-> "NOSYNC", nvr1 |-> NvrOf(b1), nvr2 |-> NvrOf(b2)]
    ELSE IF b1 = None \/ b2 = None
    THEN [status |-> "ERROR", nvr1 |-> NvrOf(b1), nvr2 |-> NvrOf(b2)]
    ELSE [status |-> status[compare_builds(b1, b2)], nvr1 |-> b1.nvr, nvr2 |-> b2.nvr]

\* classify with no nvr in the records of the two lists.
classify_bare_overrides(package, b1, b2) ==
    IF InList(package, pplace_packagelist)
    THEN [status |-> "PPLACE", nvr1 |-> None, nvr2 |-> None]
    ELSE IF package \in nosync_packagelist
    THEN [status |-> "NOSYNC", nvr1 |-> None, nvr2 |-> None]
    ELSE IF b1 = None
    THEN [status |-> "ERROR", nvr1 |-> None, nvr2 |-> NvrOf(b2)]
    ELSE IF b2 = None
    THEN [status |-> "NONE", nvr1 |-> b1.nvr, nvr2 |-> None]
    ELSE [status |-> status[compare_builds(b1, b2)], nvr1 |-> b1.nvr, nvr2 |-> b2.nvr]

\* Lines 173-209 of compare_one: the rules, once both builds are fetched.
classify(package, b1, b2) ==
    IF InList(package, pplace_packagelist)
    THEN Record(status[-5], NvrOf(b1), NvrOf(b2))
    ELSE IF package \in nosync_packagelist
    THEN Record(status[-4], NvrOf(b1), NvrOf(b2))
    ELSE IF b1 = None
    THEN Record(status[-2], None, NvrOf(b2))
    ELSE IF b2 = None
    THEN Record(status[2], b1.nvr, None)
    ELSE Record(status[compare_builds(b1, b2)], b1.nvr, b2.nvr)

Outcome(ret, gets, remote, exc) ==
    [ret |-> ret, gets |-> gets, remote |-> remote, exc |-> exc]

\* compare_one that fetches both builds before it looks the package up in
\* results.
compare_one_refetch(package) ==
    LET b1 == get_build(1, package)
        b2 == get_build(2, package)
        r1 == RemoteQueries(1)
        r2 == RemoteQueries(2)
    IN  {Outcome(IF DictHas(results, package)
                 THEN DictGet(results, package)
                 ELSE classify(package, b1, b2), 2, r1 + r2, "none")}
        \cup (IF r1 = 1 THEN {Outcome(None, 1, 1, "BackendUnavailable")} ELSE {})
        \cup (IF r2 = 1 THEN {Outcome(None, 2, r1 + 1, "BackendUnavailable")} ELSE {})

\* compare_one that never looks the package up in results.
compare_one_no_memo(package) ==
    LET b1 == get_build(1, package)
        b2 == get_build(2, package)
        r1 == RemoteQueries(1)
        r2 == RemoteQueries(2)
    IN  {Outcome(classify(package, b1, b2), 2, r1 + r2, "none")}
        \cup (IF r1 = 1 THEN {Outcome(None, 1, 1, "BackendUnavailable")} ELSE {})
        \cup (IF r2 = 1 THEN {Outcome(None, 2, r1 + 1, "BackendUnavailable")} ELSE {})

\* compare_one(package): every way the call can end.  A live source's remote
\* query may fail, and the error leaves compare_one.  The test of lines
\* 164-165 (package not in content) only logs a warning.  No branch assigns
\* to results.
compare_one(package) ==
    IF DictHas(results, package)
    THEN {Outcome(DictGet(results, package), 0, 0, "none")}
    ELSE LET b1 == get_build(1, package)
             b2 == get_build(2, package)
             r1 == RemoteQueries(1)
             r2 == RemoteQueries(2)
         IN  {Outcome(classify(package, b1, b2), 2, r1 + r2, "none")}
             \cup (IF r1 = 1 THEN {Outcome(None, 1, 1, "BackendUnavailable")} ELSE {})
             \cup (IF r2 = 1 THEN {Outcome(None, 2, r1 + 1, "BackendUnavailable")} ELSE {})

\* The loop of add_extras without its test: every cached package is an extra.
RECURSIVE extras_from_all(_, _)
extras_from_all(extras, items) ==
    IF items = <<>> THEN extras
    ELSE extras_from_all(DictPut(extras, items[1].k,
                                 Record(status[-3], None, items[1].v.nvr)),
                         Tail(items))

\* The loop of add_extras with "or" for "and" in its test.
RECURSIVE extras_from_either(_, _)
extras_from_either(extras, items) ==
    IF items = <<>> THEN extras
    ELSE LET package == items[1].k
             build == items[1].v
         IN  IF ~InList(package, content) \/ ~InList(package, pplace_packagelist)
             THEN extras_from_either(DictPut(extras, package,
                                             Record(status[-3], None, build.nvr)),
                                     Tail(items))
             ELSE extras_from_either(extras, Tail(items))

\* The loop of add_extras passing over the packages of the no-sync list too.
RECURSIVE extras_from_synced(_, _)
extras_from_synced(extras, items) ==
    IF items = <<>> THEN extras
    ELSE LET package == items[1].k
             build == items[1].v
         IN  IF ~InList(package, content) /\ ~InList(package, pplace_packagelist)
                /\ package \notin nosync_packagelist
             THEN extras_from_synced(DictPut(extras, package,
                                             Record(status[-3], None, build.nvr)),
                                     Tail(items))
             ELSE extras_from_synced(extras, Tail(items))

\* The dict add_extras builds from source2.cache.
RECURSIVE extras_from(_, _)
extras_from(extras, items) ==
    IF items = <<>> THEN extras
    ELSE LET package == items[1].k
             build == items[1].v
         IN  IF ~InList(package, content) /\ ~InList(package, pplace_packagelist)
             THEN extras_from(DictPut(extras, package,
                                      Record(status[-3], None, build.nvr)),
                              Tail(items))
             ELSE extras_from(extras, Tail(items))

\* add_extras that refuses a source2 whose constructor made no cache.
add_extras_cached_only ==
    IF made_cache[2]
    THEN Outcome(extras_from(<<>>, cache[2]), 0, 0, "none")
    ELSE Outcome(None, 0, 0, "UnsupportedExtrasMode")

\* add_extras(): what it returns.  It tests nothing about source2 and calls
\* nothing that raises: on a source2 without a cache the loop has no items.
add_extras == Outcome(extras_from(<<>>, cache[2]), 0, 0, "none")

\* sum(d.values())
RECURSIVE DictSum(_)
DictSum(d) == IF d = <<>> THEN 0 ELSE d[1].v + DictSum(Tail(d))

\* The loop of count: one more for the status of each record.
RECURSIVE count_from(_, _)
count_from(stats, items) ==
    IF items = <<>> THEN stats
    ELSE LET value == items[1].v.status
             seen == IF DictHas(stats, value) THEN DictGet(stats, value) ELSE 0
         IN  count_from(DictPut(stats, value, seen + 1), Tail(items))

\* count with the number of statuses for total.
count_statuses ==
    LET stats == count_from(<<>>, results)
    IN  DictPut(stats, "total", Len(stats))

\* count()
count ==
    LET stats == count_from(<<>>, results)
    IN  DictPut(stats, "total", DictSum(stats))

\* mstats_list of mcount.
mstats_list == <<"SAME", "NEW", "OLD", "NONE", "ERROR">>

\* The loop of mcount: one more for the status of each record whose status is
\* in mstats_list.
RECURSIVE mcount_from(_, _)
mcount_from(mstats, items) ==
    IF items = <<>> THEN mstats
    ELSE LET value == items[1].v.status
             seen == IF DictHas(mstats, value) THEN DictGet(mstats, value) ELSE 0
         IN  IF InList(value, mstats_list)
             THEN mcount_from(DictPut(mstats, value, seen + 1), Tail(items))
             ELSE mcount_from(mstats, Tail(items))

\* mcount without the test against mstats_list.
mcount_every_status ==
    LET mstats == count_from(<<>>, results)
    IN  DictPut(mstats, "total", DictSum(mstats))

\* mcount()
mcount ==
    LET mstats == mcount_from(<<>>, results)
    IN  DictPut(mstats, "total", DictSum(mstats))

\* The loop of results_by_status with each tuple put at the head of its list.
RECURSIVE by_status_prepending(_, _)
by_status_prepending(data, items) ==
    IF items = <<>> THEN data
    ELSE LET package == items[1].k
             info == items[1].v
             sofar == IF DictHas(data, info.status)
                      THEN DictGet(data, info.status) ELSE <<>>
         IN  by_status_prepending(
                 DictPut(data, info.status,
                         <<<<package, info.nvr1, info.nvr2>>>> \o sofar),
                 Tail(items))

\* The loop of results_by_status: the tuple of each record goes to the end of
\* the list of its status.
RECURSIVE by_status_from(_, _)
by_status_from(data, items) ==
    IF items = <<>> THEN data
    ELSE LET package == items[1].k
             info == items[1].v
             sofar == IF DictHas(data, info.status)
                      THEN DictGet(data, info.status) ELSE <<>>
         IN  by_status_from(
                 DictPut(data, info.status,
                         Append(sofar, <<package, info.nvr1, info.nvr2>>)),
                 Tail(items))

\* results_by_status()
results_by_status == by_status_from(<<>>, results)

-----------------------------------------------------------------------------
(* The run *)

NoCall == [op |-> "none", pkg |-> "-", ret |-> None, gets |-> 0, remote |-> 0,
           exc |-> "none", stamp |-> 0]

Call(op, pkg, o) ==
    [op |-> op, pkg |-> pkg, ret |-> o.ret, gets |-> o.gets, remote |-> o.remote,
     exc |-> o.exc, stamp |-> changes]

\* What is kept of the call before a compare_one(package): that call, when it
\* was a compare_one of the same package.
Prior(c, package) ==
    IF c.op = "compare_one" /\ c.pkg = package THEN c ELSE NoCall

\* The engine as __main__ builds it: both sources with the same make_cache
\* flag, then the Comparison over the content list.
EngineInit ==
    /\ tagged \in [Srcs -> Listings(1) \cup Listings(2)]
    /\ \A s \in Srcs : tagged[s] \in Listings(s)
    /\ \E flag \in BOOLEAN :
          /\ made_cache = [s \in Srcs |-> flag]
          /\ cache = [s \in Srcs |-> IF flag THEN make_cache(listTagged(s)) ELSE <<>>]
    /\ pplace_packagelist \in PlaceholderLists
    /\ nosync_packagelist \in NosyncLists
    /\ content \in PkgLists
    /\ results = <<>>
    /\ pc = "idle"
    /\ idx = 0
    /\ last = NoCall
    /\ prev = NoCall
    /\ changes = 0

\* No script is run.
ScriptsIdle ==
    /\ script_args = None
    /\ script_ret = None
    /\ script_calls = None

CmpIdle ==
    /\ build1 = None
    /\ build2 = None
    /\ cmp_ret = None
    /\ evr_ret = None

Init == EngineInit /\ CmpIdle /\ ScriptsIdle

\* A caller calls compare_one(package).
CompareOne(package) ==
    /\ pc = "idle"
    /\ \E o \in compare_one(package) :
          /\ last' = Call("compare_one", package, o)
          /\ prev' = Prior(last, package)
    /\ UNCHANGED <<tagged, cache, made_cache, pplace_packagelist,
                   nosync_packagelist, content,
                   results, pc, idx, changes>>
    /\ UNCHANGED cmpVars
    /\ UNCHANGED scriptVars

\* compare_content without its first loop: the content list only.
Position_content_only(phase, i) ==
    IF phase = "pplace" /\ 1 <= Len(content) THEN <<"content", 1>>
    ELSE IF phase = "content" /\ i <= Len(content) THEN <<"content", i>>
    ELSE <<"idle", 0>>

\* Where compare_content goes next from the i-th item of a loop.
Position(phase, i) ==
    IF phase = "pplace" /\ i <= Len(pplace_packagelist) THEN <<"pplace", i>>
    ELSE IF phase = "pplace" /\ 1 <= Len(content) THEN <<"content", 1>>
    ELSE IF phase = "content" /\ i <= Len(content) THEN <<"content", i>>
    ELSE <<"idle", 0>>

\* compare_content is entered.
CompareContentCall ==
    /\ pc = "idle"
    /\ LET pos == Position("pplace", 1)
       IN  /\ pc' = pos[1]
           /\ idx' = pos[2]
           /\ last' = Call("compare_content", "-",
                           Outcome(IF pos[1] = "idle" THEN results ELSE None,
                                   0, 0, "none"))
    /\ prev' = NoCall
    /\ UNCHANGED <<tagged, cache, made_cache, pplace_packagelist,
                   nosync_packagelist, content,
                   results, changes>>
    /\ UNCHANGED cmpVars
    /\ UNCHANGED scriptVars

\* An iteration of compare_content that catches the error of compare_one,
\* notes it and goes on to the next package.
CompareContentStep_continues ==
    /\ pc \in {"pplace", "content"}
    /\ LET package == IF pc = "pplace" THEN pplace_packagelist[idx] ELSE content[idx]
           pos == Position(pc, idx + 1)
       IN  \E o \in compare_one(package) :
              /\ results' = IF o.exc = "none"
                            THEN DictPut(results, package, o.ret) ELSE results
              /\ pc' = pos[1]
              /\ idx' = pos[2]
              /\ last' = [last EXCEPT !.pkg = package,
                                      !.gets = @ + o.gets,
                                      !.remote = @ + o.remote,
                                      !.exc = IF o.exc = "none" THEN @ ELSE o.exc,
                                      !.ret = IF pos[1] = "idle"
                                              THEN results' ELSE None]
    /\ UNCHANGED <<tagged, cache, made_cache, pplace_packagelist,
                   nosync_packagelist, content, prev, changes>>
    /\ UNCHANGED cmpVars
    /\ UNCHANGED scriptVars

\* An iteration of compare_content for which a package without a build in
\* source1 ends the run.
CompareContentStep_error_ends ==
    /\ pc \in {"pplace", "content"}
    /\ LET package == IF pc = "pplace" THEN pplace_packagelist[idx] ELSE content[idx]
           pos == Position(pc, idx + 1)
       IN  \E o \in compare_one(package) :
              IF o.exc = "none" /\ o.ret.status # "ERROR"
              THEN /\ results' = DictPut(results, package, o.ret)
                   /\ pc' = pos[1]
                   /\ idx' = pos[2]
                   /\ last' = [last EXCEPT !.pkg = package,
                                           !.gets = @ + o.gets,
                                           !.remote = @ + o.remote,
                                           !.ret = IF pos[1] = "idle"
                                                   THEN results' ELSE None]
              ELSE /\ results' = results
                   /\ pc' = "idle"
                   /\ idx' = 0
                   /\ last' = [last EXCEPT !.pkg = package,
                                           !.gets = @ + o.gets,
                                           !.remote = @ + o.remote,
                                           !.exc = IF o.exc = "none"
                                                   THEN "MissingReferenceBuild"
                                                   ELSE o.exc]
    /\ UNCHANGED <<tagged, cache, made_cache, pplace_packagelist,
                   nosync_packagelist, content, prev, changes>>
    /\ UNCHANGED cmpVars
    /\ UNCHANGED scriptVars

\* One iteration of a loop of compare_content:
\*     self.results[package] = self.compare_one(package)
CompareContentStep ==
    /\ pc \in {"pplace", "content"}
    /\ LET package == IF pc = "pplace" THEN pplace_packagelist[idx] ELSE content[idx]
           pos == Position(pc, idx + 1)
       IN  \E o \in compare_one(package) :
              IF o.exc = "none"
              THEN /\ results' = DictPut(results, package, o.ret)
                   /\ pc' = pos[1]
                   /\ idx' = pos[2]
                   /\ last' = [last EXCEPT !.pkg = package,
                                           !.gets = @ + o.gets,
                                           !.remote = @ + o.remote,
                                           !.ret = IF pos[1] = "idle"
                                                   THEN results' ELSE None]
              ELSE /\ results' = results
                   /\ pc' = "idle"
                   /\ idx' = 0
                   /\ last' = [last EXCEPT !.pkg = package,
                                           !.gets = @ + o.gets,
                                           !.remote = @ + o.remote,
                                           !.exc = o.exc]
    /\ UNCHANGED <<tagged, cache, made_cache, pplace_packagelist,
                   nosync_packagelist, content,
                   prev, changes>>
    /\ UNCHANGED cmpVars
    /\ UNCHANGED scriptVars

\* add_extras()
AddExtras ==
    /\ pc = "idle"
    /\ LET o == add_extras
       IN  /\ results' = IF o.exc = "none" THEN DictUpdate(results, o.ret) ELSE results
           /\ last' = Call("add_extras", "-", o)
    /\ prev' = NoCall
    /\ UNCHANGED <<tagged, cache, made_cache, pplace_packagelist,
                   nosync_packagelist, content,
                   pc, idx, changes>>
    /\ UNCHANGED cmpVars
    /\ UNCHANGED scriptVars

\* A caller calls count(), as __main__ does for the log and render for the
\* templates.
Count ==
    /\ pc = "idle"
    /\ last' = Call("count", "-", Outcome(count, 0, 0, "none"))
    /\ prev' = NoCall
    /\ UNCHANGED <<tagged, cache, made_cache, pplace_packagelist,
                   nosync_packagelist, content, results, pc, idx, changes>>
    /\ UNCHANGED cmpVars
    /\ UNCHANGED scriptVars

\* A caller calls mcount(), as render does for the templates.
MCount ==
    /\ pc = "idle"
    /\ last' = Call("mcount", "-", Outcome(mcount, 0, 0, "none"))
    /\ prev' = NoCall
    /\ UNCHANGED <<tagged, cache, made_cache, pplace_packagelist,
                   nosync_packagelist, content, results, pc, idx, changes>>
    /\ UNCHANGED cmpVars
    /\ UNCHANGED scriptVars

\* A caller calls results_by_status(), as __main__ does for the lists it
\* writes.
ResultsByStatus ==
    /\ pc = "idle"
    /\ last' = Call("results_by_status", "-", Outcome(results_by_status, 0, 0, "none"))
    /\ prev' = NoCall
    /\ UNCHANGED <<tagged, cache, made_cache, pplace_packagelist,
                   nosync_packagelist, content, results, pc, idx, changes>>
    /\ UNCHANGED cmpVars
    /\ UNCHANGED scriptVars

\* The listing of source s once build b is tagged: b takes the place of its
\* package's build.
RECURSIVE ListingWith(_, _, _)
ListingWith(s, b, i) ==
    IF i > Len(PkgOrder) THEN <<>>
    ELSE (IF PkgOrder[i] = b.name THEN <<b>> ELSE listTaggedPackage(s, PkgOrder[i]))
         \o ListingWith(s, b, i + 1)

\* A newer build of a package is tagged: source s lists it from now on, in
\* place of the older build if it listed one.
BackendChange(s) ==
    /\ changes < MaxBackendChanges
    /\ \E p \in Pkgs : \E i \in 1..Len(VersionsOf(p)) :
          /\ \A b \in BuildsOf(s, p) :
                InList(b, tagged[s]) =>
                    \E j \in 1..(i - 1) : b.version = VersionsOf(p)[j]
          /\ tagged' = [tagged EXCEPT ![s] =
                ListingWith(s, Build(p, "0", VersionsOf(p)[i],
                                     <<"3">> \o DistTagOf(s)), 1)]
    /\ changes' = changes + 1
    /\ UNCHANGED <<cache, made_cache, pplace_packagelist, nosync_packagelist, content,
                   results, pc, idx, last, prev>>
    /\ UNCHANGED cmpVars
    /\ UNCHANGED scriptVars

Next ==
    \/ \E package \in Pkgs : CompareOne(package)
    \/ CompareContentCall
    \/ CompareContentStep
    \/ AddExtras
    \/ Count
    \/ MCount
    \/ ResultsByStatus
    \/ \E s \in Srcs : BackendChange(s)

Spec == Init /\ [][Next]_vars

\* The engine over two cached sources, as __main__ builds it with --cache.
CachedInit == Init /\ made_cache[1] /\ made_cache[2]

\* compare_content and add_extras on that engine.  Cached sources do not read
\* the backend again, so its changes are left out here.
FairNext ==
    \/ CompareContentCall
    \/ CompareContentStep
    \/ AddExtras

\* A compare_content that was entered goes on: its loops wait for nothing but
\* the calls they make.
FairSpec == CachedInit /\ [][FairNext]_vars /\ WF_<<pc, idx>>(CompareContentStep)

-----------------------------------------------------------------------------
(* The comparator on its own *)

Epochs == {"0", "1"}

Versions == {<<"1", ".", "2">>, <<"1", ".", "1", "0">>}

\* Distribution tags as the three distributions write them.
DistTags == {<<".", "f", "c", "4", "0">>,
             <<".", "e", "l", "n", "1", "2", "1">>,
             <<".", "e", "l", "9">>}

\* What a release is made of before its distribution tag.
StemChars == {".", "3", "e", "l"}

Stems == StringsUpTo(StemChars, MaxBaseLen)

CmpBuilds ==
    {Build("a", e, v, stem \o t) :
        e \in Epochs, v \in Versions, stem \in Stems, t \in DistTags \cup {<<>>}}

\* A dot, then fc, eln or el, then digits: the whole of t.
IsDistTag(t) ==
    /\ t # <<>>
    /\ t[1] = "."
    /\ \E w \in {<<"f", "c">>, <<"e", "l", "n">>, <<"e", "l">>} :
          /\ HasAt(t, 2, w)
          /\ \A k \in (2 + Len(w))..Len(t) : IsDigit(t[k])

\* The release r without its trailing distribution tag, if it ends with one.
DropTrailingTag(r) ==
    IF \E i \in 1..Len(r) : IsDistTag(SubSeq(r, i, Len(r)))
    THEN LET i == CHOOSE j \in 1..Len(r) : IsDistTag(SubSeq(r, j, Len(r)))
         IN  SubSeq(r, 1, i - 1)
    ELSE r

\* The same version of the same package built for any distribution, under
\* any epoch.
Rebuilds(b) ==
    {Build(b.name, e, b.version, DropTrailingTag(b.release) \o t) :
        e \in Epochs, t \in DistTags \cup {<<>>}}

\* Builds with other releases.
OtherBuilds ==
    {Build("a", e, v, r) :
        e \in Epochs, v \in Versions,
        r \in {<<"2">>, <<"1", "0">>, <<"3", ".", "1">>, <<"3", "e">>}}

\* The engine before it is used.
EngineParked ==
    /\ tagged = [s \in Srcs |-> <<>>]
    /\ cache = [s \in Srcs |-> <<>>]
    /\ made_cache = [s \in Srcs |-> FALSE]
    /\ pplace_packagelist = <<>>
    /\ nosync_packagelist = {}
    /\ content = <<>>
    /\ results = <<>>
    /\ pc = "idle"
    /\ idx = 0
    /\ last = NoCall
    /\ prev = NoCall
    /\ changes = 0

CmpInit ==
    /\ EngineParked
    /\ build1 \in CmpBuilds
    /\ build2 \in Rebuilds(build1) \cup OtherBuilds
    /\ cmp_ret = None
    /\ evr_ret = None
    /\ ScriptsIdle

\* compare_builds(build1, build2)
CompareBuilds ==
    /\ cmp_ret = None
    /\ evr_ret' = <<evr(build1), evr(build2)>>
    /\ cmp_ret' = <<compare_builds(build1, build2)>>
    /\ UNCHANGED <<build1, build2>>
    /\ UNCHANGED engineVars
    /\ UNCHANGED scriptVars

CmpNext == CompareBuilds

SpecCmp == CmpInit /\ [][CmpNext]_vars

-----------------------------------------------------------------------------
(* One build source on its own *)

\* Longest listing the backend returns to the source.
MaxListing == 2

\* The sources constructed and queried on their own.
Probed == {1}

\* What the backend may list for the tag: any builds in any order, also none
\* and also two under one name.
SourceListings(s) ==
    UNION {[1..k -> UNION {BuildsOf(s, p) : p \in Pkgs}] : k \in 0..MaxListing}

\* BuildSource.__init__ up to "self.cache = {}".
SrcInit ==
    /\ tagged \in [Srcs -> UNION {SourceListings(s) : s \in Srcs}]
    /\ \A s \in Srcs : tagged[s] \in (IF s \in Probed THEN SourceListings(s) ELSE {<<>>})
    /\ cache = [s \in Srcs |-> <<>>]
    /\ made_cache = [s \in Srcs |-> FALSE]
    /\ pplace_packagelist = <<>>
    /\ nosync_packagelist = {}
    /\ content = <<>>
    /\ results = <<>>
    /\ pc = "idle"
    /\ idx = 0
    /\ last = NoCall
    /\ prev = NoCall
    /\ changes = 0
    /\ CmpIdle
    /\ ScriptsIdle

\* The constructor of source s raised: there is no source to call.
Unbuilt == last.op = "make_cache" /\ last.exc # "none"

\* "if make_cache: self.make_cache()" at the end of BuildSource.__init__, before
\* any other call.  The one remote query may fail, and then the constructor
\* raises.
MakeCache(s) ==
    /\ ~made_cache[s]
    /\ last = NoCall
    /\ \/ /\ cache' = [cache EXCEPT ![s] = make_cache(listTagged(s))]
          /\ made_cache' = [made_cache EXCEPT ![s] = TRUE]
          /\ last' = Call("make_cache", "-", Outcome(None, 0, 1, "none"))
       \/ /\ UNCHANGED <<cache, made_cache>>
          /\ last' = Call("make_cache", "-", Outcome(None, 0, 1, "BackendUnavailable"))
    /\ UNCHANGED <<tagged, pplace_packagelist, nosync_packagelist, content,
                   results, pc, idx, prev, changes>>
    /\ UNCHANGED cmpVars
    /\ UNCHANGED scriptVars

\* A caller calls get_build(package) on source s.
GetBuild(s, package) ==
    /\ ~Unbuilt
    /\ \E o \in {Outcome(get_build(s, package), 1, RemoteQueries(s), "none")}
                 \cup (IF RemoteQueries(s) = 1
                       THEN {Outcome(None, 1, 1, "BackendUnavailable")} ELSE {}) :
          last' = Call("get_build", package, o)
    /\ UNCHANGED <<tagged, cache, made_cache, pplace_packagelist,
                   nosync_packagelist, content, results, pc, idx, prev, changes>>
    /\ UNCHANGED cmpVars
    /\ UNCHANGED scriptVars

\* The tag of source s gets other contents on the backend.
Retag(s) ==
    /\ changes < MaxBackendChanges
    /\ \E l \in SourceListings(s) :
          l # tagged[s] /\ tagged' = [tagged EXCEPT ![s] = l]
    /\ changes' = changes + 1
    /\ UNCHANGED <<cache, made_cache, pplace_packagelist, nosync_packagelist, content,
                   results, pc, idx, last, prev>>
    /\ UNCHANGED cmpVars
    /\ UNCHANGED scriptVars

SrcNext ==
    \E s \in Probed :
        \/ MakeCache(s)
        \/ \E package \in Pkgs : GetBuild(s, package)
        \/ Retag(s)

SpecSource == SrcInit /\ [][SrcNext]_vars

-----------------------------------------------------------------------------
(* Properties of compare_one *)

\* The last (or the previous) call was a compare_one that returned a record.
Returned(c) == c.op = "compare_one" /\ c.exc = "none"

\* ... and it computed the record from the two builds it fetched.
Computed(c) == Returned(c) /\ c.gets = 2

\* No backend has changed since the last call.
Current == last.stamp = changes

Overridden(package) ==
    InList(package, pplace_packagelist) \/ package \in nosync_packagelist

\* The package that the next iteration of compare_content processes.
StepPackage == IF pc = "pplace" THEN pplace_packagelist[idx] ELSE content[idx]

\* C1 as stated: compare_one(p) called twice in a row returns identical
\* records, and the second call makes no get_build or backend access.
C1_SecondCallNoAccess ==
    (Returned(last) /\ Returned(prev) /\ prev.stamp = last.stamp)
        => /\ last.ret = prev.ret
           /\ last.gets = 0
           /\ last.remote = 0

\* C1 amended: compare_one(p) called twice in a row returns identical records;
\* the second call makes no get_build or backend access when p is stored in
\* results, and fetches both builds again when it is not (compare_one stores
\* nothing).
C1_RepeatedCall ==
    (Returned(last) /\ Returned(prev) /\ prev.stamp = last.stamp)
        => /\ last.ret = prev.ret
           /\ IF DictHas(results, last.pkg)
              THEN last.gets = 0 /\ last.remote = 0
              ELSE last.gets = 2 /\ last.remote = RemoteQueries(1) + RemoteQueries(2)

\* Two calls in a row of a stored package: both answered from results.
C1_Witness ==
    /\ Returned(last) /\ Returned(prev) /\ prev.stamp = last.stamp
    /\ DictHas(results, last.pkg)
    /\ last.ret = DictGet(results, last.pkg)
    /\ last.gets = 0 /\ prev.gets = 0

\* C2 as stated: right after compare_one(p) returns r, results[p] = r.
C2_CompareOneStores ==
    Returned(last)
        => DictHas(results, last.pkg) /\ DictGet(results, last.pkg) = last.ret

\* C2 amended: compare_content stores the record compare_one computes for the
\* package of each iteration; a stored record is never replaced by another,
\* and any later compare_one(p) returns it, also when the builds of p have
\* changed in between; compare_one itself stores nothing.
C2_ContentStoresAndKeeps ==
    [][/\ (pc \in {"pplace", "content"} /\ <<pc', idx'>> # <<pc, idx>>
              /\ last'.exc = "none")
            => /\ DictHas(results', StepPackage)
               /\ \E o \in compare_one(StepPackage) :
                     o.exc = "none" /\ DictGet(results', StepPackage) = o.ret
       /\ \A p \in Pkgs :
             DictHas(results, p)
                 => DictHas(results', p) /\ DictGet(results', p) = DictGet(results, p)
       /\ (Returned(last') /\ DictHas(results', last'.pkg))
             => last'.ret = DictGet(results', last'.pkg)
       /\ (last'.op = "compare_one" => results' = results)
      ]_vars

\* compare_one returns the stored record of a package whose builds have
\* changed since: computed now, the record would be another one.
C2_Witness ==
    /\ Returned(last)
    /\ ~UsesCache(1) /\ ~UsesCache(2)
    /\ DictHas(results, last.pkg)
    /\ last.ret = DictGet(results, last.pkg)
    /\ last.stamp = 1 /\ Current
    /\ classify(last.pkg, get_build(1, last.pkg), get_build(2, last.pkg)) # last.ret

\* C3: a package in the placeholder list and in the no-sync list gets status
\* PPLACE from compare_one, whichever of its two builds exist.
C3_PlaceholderBeforeNosync ==
    (Returned(last) /\ InList(last.pkg, pplace_packagelist)
        /\ last.pkg \in nosync_packagelist)
        => last.ret.status = "PPLACE"

C3_Witness ==
    /\ Computed(last)
    /\ InList(last.pkg, pplace_packagelist)
    /\ last.pkg \in nosync_packagelist
    /\ last.ret = Record("PPLACE", None, None)

\* C4: a package in the no-sync list and not in the placeholder list gets
\* status NOSYNC when compare_one classifies it, also when build1 or build2 is
\* missing, and compare_one never returns ERROR or NONE for it.
C4_NosyncBeforeMissingBuilds ==
    (Returned(last) /\ last.pkg \in nosync_packagelist
        /\ ~InList(last.pkg, pplace_packagelist))
        => /\ last.ret.status \notin {"ERROR", "NONE"}
           /\ Computed(last) => last.ret.status = "NOSYNC"

C4_Witness ==
    /\ Computed(last)
    /\ last.pkg \in nosync_packagelist
    /\ ~InList(last.pkg, pplace_packagelist)
    /\ last.ret = Record("NOSYNC", None, None)

\* C5: for a package in neither list of which source1 has no build, compare_one
\* computes status ERROR, nvr1 absent, and nvr2 the nvr of source2's build,
\* absent if source2 has none either.
C5_NoReferenceBuildIsError ==
    (Computed(last) /\ Current /\ ~Overridden(last.pkg)
        /\ get_build(1, last.pkg) = None)
        => last.ret = Record("ERROR", None, NvrOf(get_build(2, last.pkg)))

\* Neither source has a build: ERROR, not NONE.
C5_Witness ==
    /\ Computed(last) /\ Current /\ ~Overridden(last.pkg)
    /\ get_build(1, last.pkg) = None
    /\ get_build(2, last.pkg) = None
    /\ last.ret = Record("ERROR", None, None)

\* C6: for a package in neither list of which source1 has a build and source2
\* has none, compare_one computes status NONE, nvr1 the nvr of source1's
\* build, nvr2 absent.
C6_NoTargetBuildIsNone ==
    (Computed(last) /\ Current /\ ~Overridden(last.pkg)
        /\ get_build(1, last.pkg) # None /\ get_build(2, last.pkg) = None)
        => last.ret = Record("NONE", get_build(1, last.pkg).nvr, None)

C6_Witness ==
    /\ Computed(last) /\ Current /\ ~Overridden(last.pkg)
    /\ get_build(1, last.pkg) # None
    /\ get_build(2, last.pkg) = None
    /\ last.ret.status = "NONE"
    /\ last.ret.nvr1 = <<last.pkg, V2, <<"3">> \o DistTagOf(1)>>
    /\ last.ret.nvr2 = None

Mirror(st) == IF st = "NEW" THEN "OLD" ELSE IF st = "OLD" THEN "NEW" ELSE st

\* C7: for a package in neither list with a build on both sides the status is
\* NEW when compare_builds returns -1 (source1 has the older build), SAME when
\* 0, OLD when 1; with the two builds swapped NEW becomes OLD, OLD becomes NEW
\* and SAME stays.
C7_StatusOfComparison ==
    (Computed(last) /\ Current /\ ~Overridden(last.pkg)
        /\ get_build(1, last.pkg) # None /\ get_build(2, last.pkg) # None)
        => LET b1 == get_build(1, last.pkg)
               b2 == get_build(2, last.pkg)
               c == compare_builds(b1, b2)
           IN  /\ c \in {-1, 0, 1}
               /\ last.ret.status = (IF c = -1 THEN "NEW"
                                     ELSE IF c = 0 THEN "SAME" ELSE "OLD")
               /\ (b1.version = V1 /\ b2.version = V2) => c = -1
               /\ (b1.version = V2 /\ b2.version = V1) => c = 1
               /\ classify(last.pkg, b2, b1).status = Mirror(last.ret.status)
               /\ last.ret.nvr1 = b1.nvr /\ last.ret.nvr2 = b2.nvr

\* Source1 has the older build: NEW, and OLD with the sources swapped.
C7_Witness ==
    /\ Computed(last) /\ Current /\ ~Overridden(last.pkg)
    /\ get_build(1, last.pkg) # None /\ get_build(2, last.pkg) # None
    /\ get_build(1, last.pkg).version = V1
    /\ get_build(2, last.pkg).version = V2
    /\ last.ret.status = "NEW"
    /\ classify(last.pkg, get_build(2, last.pkg), get_build(1, last.pkg)).status = "OLD"

\* C24: the record compare_one makes of a package has for nvr1 the nvr of
\* source1's build when source1 has a build of it and None when it has none,
\* and for nvr2 the same of source2, whatever the status, PPLACE and NOSYNC
\* too.
C24_NvrFollowBuilds ==
    (Computed(last) /\ Current)
        => LET b1 == get_build(1, last.pkg)
               b2 == get_build(2, last.pkg)
           IN  /\ last.ret.nvr1 = (IF b1 = None THEN None ELSE b1.nvr)
               /\ last.ret.nvr2 = (IF b2 = None THEN None ELSE b2.nvr)
               /\ b1 # None => last.ret.nvr1 # None /\ last.ret.nvr1[1] = last.pkg
               /\ b2 # None => last.ret.nvr2 # None /\ last.ret.nvr2[1] = last.pkg

\* A placeholder package with a build in source2 only.
C24_Witness ==
    /\ Computed(last) /\ Current
    /\ last.ret.status = "PPLACE"
    /\ get_build(1, last.pkg) = None
    /\ get_build(2, last.pkg) # None
    /\ last.ret.nvr1 = None
    /\ last.ret.nvr2 = <<last.pkg, V1, <<"3">> \o DistTagOf(2)>>

-----------------------------------------------------------------------------
(* Properties of compare_content and add_extras *)

\* compare_content has returned, and nothing was called since.
ContentDone == pc = "idle" /\ last.op = "compare_content" /\ last.exc = "none"

HasStatus(package, st) ==
    DictHas(results, package) /\ DictGet(results, package).status = st

\* C15: once compare_content is through the placeholder list, and so when it
\* has returned, every package of the placeholder list has status PPLACE in
\* results, also one that is in content too; the pass over content leaves the
\* records of the placeholder packages as they are.
C15_PlaceholdersFirst ==
    /\ [](pc = "content" \/ ContentDone
            => \A i \in 1..Len(pplace_packagelist) :
                  HasStatus(pplace_packagelist[i], "PPLACE"))
    /\ [][pc = "content"
            => \A i \in 1..Len(pplace_packagelist) :
                  /\ DictHas(results', pplace_packagelist[i])
                  /\ DictGet(results', pplace_packagelist[i])
                        = DictGet(results, pplace_packagelist[i])]_vars

\* A placeholder package that is in content and in the no-sync list, and of
\* which source 1 has no build, after compare_content.
C15_Witness ==
    /\ ContentDone
    /\ InList("a", pplace_packagelist)
    /\ InList("a", content)
    /\ "a" \in nosync_packagelist
    /\ get_build(1, "a") = None
    /\ HasStatus("a", "PPLACE")
    /\ Len(results) = 2

\* compare_content was left by an error, and nothing was called since.
ContentFailed == last.op = "compare_content" /\ last.exc # "none"

\* The packages in the order compare_content goes through them.
Passes == pplace_packagelist \o content

\* Where compare_content first comes to package p.
FirstPass(p) == CHOOSE i \in 1..Len(Passes) :
                    Passes[i] = p /\ \A j \in 1..(i - 1) : Passes[j] # p

\* C23: a get_build of a source without cache that fails while compare_content
\* is at package p ends compare_content with that error; the step stores
\* nothing, so results keeps every record it had, and it has no record for p
\* nor for a package that compare_content comes to only after p.
C23_TransportErrorPropagates ==
    /\ [][(pc \in {"pplace", "content"} /\ last'.exc # "none")
            => /\ last'.exc = "BackendUnavailable"
               /\ last'.pkg = StepPackage
               /\ ~UsesCache(1) \/ ~UsesCache(2)
               /\ pc' = "idle"
               /\ results' = results]_vars
    /\ [](ContentFailed
            => /\ pc = "idle"
               /\ ~DictHas(results, last.pkg)
               /\ \A j \in 1..Len(Passes) :
                     FirstPass(Passes[j]) > FirstPass(last.pkg)
                         => ~DictHas(results, Passes[j]))

\* compare_content stored the record of "b" and failed at "a".
C23_Witness ==
    /\ ContentFailed
    /\ pc = "idle"
    /\ last.pkg = "a"
    /\ last.exc = "BackendUnavailable"
    /\ Passes = <<"b", "a">>
    /\ DictKeys(results) = {"b"}

C16_ResultsGrowOnly ==
    [][/\ Len(results') >= Len(results)
       /\ SubSeq(results', 1, Len(results)) = results
       /\ DictKeys(results) \subseteq DictKeys(results')
      ]_vars

\* add_extras after compare_content: an EXTRA record after the records of the
\* content.
C16_Witness ==
    /\ last.op = "add_extras"
    /\ Len(results) = 2
    /\ results[1].v.status \in {"NEW", "OLD", "SAME", "NONE", "ERROR"}
    /\ results[2].v.status = "EXTRA"

\* The step is a call of add_extras.
AddExtrasStep == last'.op = "add_extras" /\ last' # last

\* C17: add_extras leaves every key that results has with the record it has,
\* whatever was called before; the keys it adds are those of the map it
\* returns.
C17_ExtrasInsertIfAbsent ==
    [][(AddExtrasStep /\ last'.exc = "none")
          => /\ \A p \in DictKeys(results) :
                   DictHas(results', p) /\ DictGet(results', p) = DictGet(results, p)
             /\ DictKeys(results') = DictKeys(results) \cup DictKeys(last'.ret)
             /\ \A p \in DictKeys(last'.ret) \ DictKeys(results) :
                   DictGet(results', p) = DictGet(last'.ret, p)
      ]_vars

\* add_extras returns an EXTRA record for a package that results holds with
\* it, next to a record compare_content stored.
C17_Witness ==
    /\ last.op = "add_extras"
    /\ \E p \in DictKeys(last.ret) : HasStatus(p, "EXTRA")
    /\ \E p \in DictKeys(results) : InList(p, content) /\ ~HasStatus(p, "EXTRA")

\* The packages add_extras is to report.
ExtraPackages ==
    {p \in DictKeys(cache[2]) : ~InList(p, content) /\ ~InList(p, pplace_packagelist)}

\* C18: the map add_extras returns has exactly one item for every package of
\* source2's cache that is neither in content nor in the placeholder list:
\* status EXTRA, nvr1 None, nvr2 the nvr of the cached build.
C18_ExtrasComplete ==
    (last.op = "add_extras" /\ last.exc = "none")
        => \A p \in ExtraPackages :
              /\ Cardinality({i \in 1..Len(last.ret) : last.ret[i].k = p}) = 1
              /\ DictGet(last.ret, p) = Record("EXTRA", None, DictGet(cache[2], p).nvr)

\* Both packages are extras, one of them in the no-sync list.
C18_Witness ==
    /\ last.op = "add_extras"
    /\ ExtraPackages = {"a", "b"}
    /\ "a" \in nosync_packagelist
    /\ DictKeys(last.ret) = {"a", "b"}
    /\ DictGet(last.ret, "a").nvr2 = <<"a", V2, <<"3">> \o DistTagOf(2)>>

\* C19 as stated: add_extras on a source2 that never made a cache raises
\* UnsupportedExtrasMode.
C19_LiveExtrasRaise ==
    (last.op = "add_extras" /\ ~made_cache[2]) => last.exc = "UnsupportedExtrasMode"

\* C19 amended: add_extras on a source2 that never made a cache raises
\* nothing and returns an empty map, and results is after the call what it
\* was before.
C19_LiveExtrasEmpty ==
    /\ []((last.op = "add_extras" /\ ~made_cache[2])
            => last.exc = "none" /\ last.ret = <<>>)
    /\ [][(AddExtrasStep /\ ~made_cache[2]) => results' = results]_vars

\* Source2 makes no cache and has a build of a package outside content and
\* the placeholder list: add_extras returns nothing.
C19_Witness ==
    /\ last.op = "add_extras"
    /\ last.exc = "none"
    /\ last.ret = <<>>
    /\ ~made_cache[2]
    /\ \E p \in Pkgs :
          /\ get_build(2, p) # None
          /\ ~InList(p, content) /\ ~InList(p, pplace_packagelist)

\* C26 as stated: compare_one never returns EXTRA, and no package of content
\* or of the placeholder list has status EXTRA.
C26_ExtraNeverReturned ==
    /\ Returned(last) => last.ret.status # "EXTRA"
    /\ \A i \in 1..Len(Passes) : ~HasStatus(Passes[i], "EXTRA")

\* C26 amended: only add_extras puts an EXTRA record in results, and only for
\* packages of source2's cache outside content and the placeholder list;
\* compare_one never computes EXTRA, and returns it only as the record that
\* add_extras stored for the package; in any order of the calls no package of
\* content or of the placeholder list has status EXTRA.
C26_ExtraOnlyFromAddExtras ==
    /\ [][\A p \in Pkgs :
            (DictHas(results', p) /\ DictGet(results', p).status = "EXTRA"
                /\ ~HasStatus(p, "EXTRA"))
                => last'.op = "add_extras" /\ DictHas(last'.ret, p)]_vars
    /\ [](/\ \A p \in Pkgs : HasStatus(p, "EXTRA") => p \in ExtraPackages
          /\ \A i \in 1..Len(Passes) : ~HasStatus(Passes[i], "EXTRA")
          /\ Computed(last) => last.ret.status # "EXTRA"
          /\ (Returned(last) /\ last.ret.status = "EXTRA")
                => /\ last.gets = 0
                   /\ last.pkg \in ExtraPackages
                   /\ last.ret = DictGet(results, last.pkg))

\* compare_one of a package that add_extras stored returns its EXTRA record
\* without fetching a build.
C26_Witness ==
    /\ Returned(last)
    /\ last.ret.status = "EXTRA"
    /\ last.gets = 0
    /\ HasStatus(last.pkg, "EXTRA")
    /\ ~InList(last.pkg, content)
    /\ \E p \in Pkgs : InList(p, content) /\ DictHas(results, p)

-----------------------------------------------------------------------------
(* Properties of count *)

\* The counts per status that count() returned: all items but "total".
StatusCounts(stats) == SelectSeq(stats, LAMBDA item : item.k # "total")

\* C20: whatever compare_content and add_extras calls came before, the total
\* that count() returns is the number of keys of results, and it is the sum
\* of the counts per status that count() returns, each of which is the number
\* of records with that status.
C20_CountTotal ==
    last.op = "count"
        => /\ DictHas(last.ret, "total")
           /\ DictGet(last.ret, "total") = Cardinality(DictKeys(results))
           /\ DictGet(last.ret, "total") = DictSum(StatusCounts(last.ret))
           /\ \A i \in 1..Len(StatusCounts(last.ret)) :
                 StatusCounts(last.ret)[i].v =
                     Cardinality({p \in DictKeys(results) :
                                     HasStatus(p, StatusCounts(last.ret)[i].k)})
           /\ \A p \in DictKeys(results) :
                 DictHas(last.ret, DictGet(results, p).status)

\* Two records of one status: a total of 2, under one status.
C20_Witness ==
    /\ last.op = "count"
    /\ Len(results) = 2
    /\ results[1].v.status = results[2].v.status
    /\ last.ret = <<[k |-> results[1].v.status, v |-> 2], [k |-> "total", v |-> 2]>>

\* The statuses mcount leaves out.
Unmatched == {"PPLACE", "NOSYNC", "EXTRA"}

\* C21: mcount counts the records with status SAME, NEW, OLD, NONE or ERROR
\* only: each count per status is that of count(), there is no entry for
\* PPLACE, NOSYNC or EXTRA, and the total is that of count() less the number
\* of PPLACE, NOSYNC and EXTRA records.
C21_McountMatchedOnly ==
    last.op = "mcount"
        => /\ \A i \in 1..Len(StatusCounts(last.ret)) :
                 LET item == StatusCounts(last.ret)[i]
                 IN  /\ item.k \in {"SAME", "NEW", "OLD", "NONE", "ERROR"}
                     /\ DictHas(count, item.k)
                     /\ item.v = DictGet(count, item.k)
           /\ \A st \in {"SAME", "NEW", "OLD", "NONE", "ERROR"} :
                 DictHas(count, st) => DictHas(last.ret, st)
           /\ \A st \in Unmatched : ~DictHas(last.ret, st)
           /\ DictGet(last.ret, "total") =
                 DictGet(count, "total")
                   - Cardinality({p \in DictKeys(results) :
                                     DictGet(results, p).status \in Unmatched})

\* One record is counted and one is left out.
C21_Witness ==
    /\ last.op = "mcount"
    /\ Len(results) = 2
    /\ results[1].v.status = "PPLACE"
    /\ results[2].v.status = "NEW"
    /\ last.ret = <<[k |-> "NEW", v |-> 1], [k |-> "total", v |-> 1]>>

\* Where package p is in results.
PlaceOf(p) == CHOOSE i \in 1..Len(results) : results[i].k = p

\* C22: results_by_status puts every package of results in exactly one list,
\* that of its status, as the tuple (name, nvr1, nvr2) of its record, and the
\* packages of a list are in the order in which results got them.
C22_StableGrouping ==
    last.op = "results_by_status"
        => /\ \A p \in DictKeys(results) :
                 Cardinality({<<i, j>> \in (1..Len(last.ret)) \X (1..Len(results)) :
                                 /\ j <= Len(last.ret[i].v)
                                 /\ last.ret[i].v[j][1] = p}) = 1
           /\ \A i \in 1..Len(last.ret) :
                 /\ last.ret[i].v # <<>>
                 /\ \A j \in 1..Len(last.ret[i].v) :
                       LET t == last.ret[i].v[j]
                       IN  /\ DictHas(results, t[1])
                           /\ DictGet(results, t[1]) = Record(last.ret[i].k, t[2], t[3])
                 /\ \A j, k \in 1..Len(last.ret[i].v) :
                       j < k => PlaceOf(last.ret[i].v[j][1]) < PlaceOf(last.ret[i].v[k][1])

\* Two packages of one status, "b" stored before "a": the list has "b" first.
C22_Witness ==
    /\ last.op = "results_by_status"
    /\ Len(results) = 2
    /\ results[1].k = "b" /\ results[2].k = "a"
    /\ results[1].v.status = results[2].v.status
    /\ Len(last.ret) = 1
    /\ last.ret[1].v[1][1] = "b" /\ last.ret[1].v[2][1] = "a"

-----------------------------------------------------------------------------
(* Properties of evr and compare_builds *)

\* C8: two builds of one version whose releases differ only by a trailing
\* distribution tag (.fc, .eln or .el and digits) compare equal.
C8_DistTagsCompareEqual ==
    (cmp_ret # None /\ build1.version = build2.version
        /\ DropTrailingTag(build1.release) = DropTrailingTag(build2.release))
        => cmp_ret = <<0>>

\* 1.2-3.fc40 against 1.2-3.eln121.
C8_Witness ==
    /\ cmp_ret = <<0>>
    /\ build1.version = <<"1", ".", "2">>
    /\ build2.version = <<"1", ".", "2">>
    /\ build1.release = <<"3", ".", "f", "c", "4", "0">>
    /\ build2.release = <<"3", ".", "e", "l", "n", "1", "2", "1">>

\* C9: evr removes from the release a trailing distribution tag and nothing
\* else: a release that does not end with one is returned as it is.
C9_OnlyTrailingTagRemoved ==
    evr_ret # None => evr_ret[1][3] = DropTrailingTag(build1.release)

\* C10: evr always yields epoch "0", and compare_builds returns the same for
\* any epochs the two build records carry.
C10_EpochIgnored ==
    cmp_ret # None
        => /\ evr_ret[1][1] = "0" /\ evr_ret[2][1] = "0"
           /\ \A e1, e2 \in Epochs :
                 <<compare_builds([build1 EXCEPT !.epoch = e1],
                                  [build2 EXCEPT !.epoch = e2])>> = cmp_ret

\* The build with the lower epoch is found the newer one.
C10_Witness ==
    /\ cmp_ret = <<1>>
    /\ build1.epoch = "0"
    /\ build2.epoch = "1"
    /\ evr_ret[1][1] = "0" /\ evr_ret[2][1] = "0"

-----------------------------------------------------------------------------
(* Properties of BuildSource *)

\* The names the backend lists for source s.
ListedNames(s) == {tagged[s][i].name : i \in 1..Len(tagged[s])}

\* The last build listed under a name.
LastListed(s, name) ==
    tagged[s][CHOOSE i \in 1..Len(tagged[s]) :
                 /\ tagged[s][i].name = name
                 /\ \A j \in (i + 1)..Len(tagged[s]) : tagged[s][j].name # name]

\* C12: a source whose constructor ran make_cache answers every get_build from
\* its cache alone: the cached build or None, no remote query, no failure,
\* also when make_cache found no build at all.
C12_CachedSourceNeverQueries ==
    \A s \in Probed :
        (last.op = "get_build" /\ made_cache[s])
            => /\ last.remote = 0
               /\ last.exc = "none"
               /\ last.ret = (IF DictHas(cache[s], last.pkg)
                              THEN DictGet(cache[s], last.pkg) ELSE None)

\* C13: get_build on a source without a cache issues exactly one remote query,
\* returns the first build the backend reports for the package, None when it
\* reports none, and leaves the cache as it is.
C13_LiveGetBuild ==
    [][\A s \in Probed :
          (last'.op = "get_build" /\ last' # last /\ ~UsesCache(s))
              => /\ last'.remote = 1
                 /\ last'.gets = 1
                 /\ cache' = cache
                 /\ tagged' = tagged
                 /\ last'.exc = "none"
                       => LET builds == listTaggedPackage(s, last'.pkg)
                          IN  last'.ret = (IF builds = <<>> THEN None ELSE builds[1])
      ]_vars

\* The backend reports two builds of the package; the first one is returned.
C13_Witness ==
    \E s \in Probed :
        /\ last.op = "get_build" /\ last.exc = "none" /\ last.stamp = changes
        /\ ~made_cache[s]
        /\ cache[s] = <<>>
        /\ last.remote = 1
        /\ Len(listTaggedPackage(s, last.pkg)) = 2
        /\ listTaggedPackage(s, last.pkg)[1] # listTaggedPackage(s, last.pkg)[2]
        /\ last.ret = listTaggedPackage(s, last.pkg)[1]

\* C14: make_cache issues one remote query, and then the cache has exactly one
\* entry for each name the backend listed, under that name: the last build
\* listed with the name.
C14_MakeCacheLastWins ==
    \A s \in Probed :
        (last.op = "make_cache" /\ last.exc = "none" /\ last.stamp = changes)
            => /\ last.remote = 1
               /\ made_cache[s]
               /\ DictKeys(cache[s]) = ListedNames(s)
               /\ Len(cache[s]) = Cardinality(ListedNames(s))
               /\ \A i \in 1..Len(cache[s]) :
                     /\ cache[s][i].v.name = cache[s][i].k
                     /\ cache[s][i].v = LastListed(s, cache[s][i].k)

\* Two builds of one package listed, the newer one first: the cache holds the
\* one listed last.
C14_Witness ==
    \E s \in Probed :
        /\ last.op = "make_cache" /\ last.exc = "none" /\ last.stamp = changes
        /\ Len(tagged[s]) = 2
        /\ tagged[s][1].name = "a" /\ tagged[s][1].version = V2
        /\ tagged[s][2].name = "a" /\ tagged[s][2].version = V1
        /\ cache[s] = <<[k |-> "a", v |-> tagged[s][2]]>>

-----------------------------------------------------------------------------
\* untag-trimmed-builds.py: untagging the builds of packages the distribution
\* dropped.  A tagged build is [package_name, nvr]; an NVR is the rank of its
\* string in sorted() order, and a tag lists a build once.

MaxTagged == 3

UntagPackages == {"x", "y"}

\* The share of undesired builds above which --force is needed: 0.5, kept as
\* the fraction <<1, 2>>.
FORCE_THRESHOLD == <<1, 2>>

\* session.listTagged(koji_tag): every listing of at most MaxTagged builds.
UntagListings ==
    UNION {[1..n -> UntagPackages] : n \in 0..MaxTagged}

ListedBuilds(names) ==
    [i \in 1..Len(names) |-> [package_name |-> names[i], nvr |-> i]]

\* sorted(builds)
RECURSIVE sorted(_)
sorted(S) ==
    IF S = {} THEN <<>>
    ELSE LET least == CHOOSE n \in S : \A m \in S : n <= m
         IN  <<least>> \o sorted(S \ {least})

\* What get_undesired_builds returns: None, or a set of NVRs.
UntagReturn(none, builds) == [none |-> none, builds |-> builds]

\* A changed get_undesired_builds that never asks for --force.
get_undesired_builds_unchecked(tag, builds, desired_pkgs, force) ==
    IF ~tag THEN UntagReturn(TRUE, {})
    ELSE UntagReturn(FALSE, {builds[i].nvr : i \in {j \in 1..Len(builds) :
                              builds[j].package_name \notin desired_pkgs}})

\* get_undesired_builds(session, koji_tag, desired_pkgs, force); tag tells
\* whether session.getTag found the tag, builds is what listTagged returned.
get_undesired_builds(tag, builds, desired_pkgs, force) ==
    IF ~tag THEN UntagReturn(TRUE, {})
    ELSE LET undesired_builds ==
                 {builds[i].nvr : i \in {j \in 1..Len(builds) :
                      builds[j].package_name \notin desired_pkgs}}
             num_current_builds == Len(builds)
         IN  IF num_current_builds = 0 THEN UntagReturn(FALSE, undesired_builds)
             ELSE IF /\ Cardinality(undesired_builds) * FORCE_THRESHOLD[2]
                           > FORCE_THRESHOLD[1] * num_current_builds
                     /\ ~force
                  THEN UntagReturn(TRUE, {})
                  ELSE UntagReturn(FALSE, undesired_builds)

\* untag_builds(session, koji_tag, dry_run, builds): the untagBuild calls of
\* the multicall, in order.
untag_builds(dry_run, builds) ==
    IF dry_run THEN <<>> ELSE sorted(builds)

\* "not builds_to_untag"
NothingToUntag(r) == r.none \/ r.builds = {}

UntagInit ==
    /\ EngineParked
    /\ CmpIdle
    /\ \E names \in UntagListings, tag \in BOOLEAN, desired \in SUBSET UntagPackages,
          force \in BOOLEAN, dry_run \in BOOLEAN, logged_in \in BOOLEAN :
          /\ (~tag => names = <<>>)
          /\ script_args = [tag |-> tag, builds |-> ListedBuilds(names),
                            desired_pkgs |-> desired, force |-> force,
                            dry_run |-> dry_run, logged_in |-> logged_in]
    /\ script_ret = [at |-> "cli", none |-> FALSE, builds |-> {}]
    /\ script_calls = <<>>

\* cli: the login failed, the run ends.
CliNotLoggedIn ==
    /\ script_ret.at = "cli"
    /\ ~script_args.logged_in
    /\ script_ret' = [script_ret EXCEPT !.at = "end"]
    /\ UNCHANGED <<script_args, script_calls>>
    /\ UNCHANGED engineVars
    /\ UNCHANGED cmpVars

\* cli: builds_to_untag = get_undesired_builds(...)
CliGetUndesiredBuilds ==
    /\ script_ret.at = "cli"
    /\ script_args.logged_in
    /\ LET r == get_undesired_builds(script_args.tag, script_args.builds,
                                     script_args.desired_pkgs, script_args.force)
       IN  script_ret' = [at |-> "returned", none |-> r.none, builds |-> r.builds]
    /\ UNCHANGED <<script_args, script_calls>>
    /\ UNCHANGED engineVars
    /\ UNCHANGED cmpVars

\* cli: "No builds to untag"
CliNoBuilds ==
    /\ script_ret.at = "returned"
    /\ NothingToUntag(script_ret)
    /\ script_ret' = [script_ret EXCEPT !.at = "end"]
    /\ UNCHANGED <<script_args, script_calls>>
    /\ UNCHANGED engineVars
    /\ UNCHANGED cmpVars

\* cli: untag_builds(session, koji_tag, dry_run, builds_to_untag)
CliUntagBuilds ==
    /\ script_ret.at = "returned"
    /\ ~NothingToUntag(script_ret)
    /\ script_calls' = untag_builds(script_args.dry_run, script_ret.builds)
    /\ script_ret' = [script_ret EXCEPT !.at = "end"]
    /\ UNCHANGED script_args
    /\ UNCHANGED engineVars
    /\ UNCHANGED cmpVars

UntagNext ==
    \/ CliNotLoggedIn
    \/ CliGetUndesiredBuilds
    \/ CliNoBuilds
    \/ CliUntagBuilds

SpecUntag == UntagInit /\ [][UntagNext]_vars

\* The NVRs of the tagged builds whose package is not desired.
UndesiredNvrs ==
    {script_args.builds[i].nvr : i \in {j \in 1..Len(script_args.builds) :
         script_args.builds[j].package_name \notin script_args.desired_pkgs}}

\* The undesired builds are more than FORCE_THRESHOLD of the builds in the tag.
OverThreshold ==
    /\ Len(script_args.builds) > 0
    /\ 2 * Cardinality(UndesiredNvrs) > Len(script_args.builds)

\* C27: with the tag holding builds, when the undesired share is over one
\* half and force is off, get_undesired_builds returns None and the run never
\* calls untagBuild; when the share is at most one half, or force is on, it
\* returns exactly the NVRs of the tagged builds whose package is not desired.
C27_ThresholdNeedsForce ==
    (script_args.tag /\ Len(script_args.builds) > 0)
        => /\ (OverThreshold /\ ~script_args.force)
                => /\ script_calls = <<>>
                   /\ (script_ret.at = "returned" => script_ret.none)
           /\ ((~OverThreshold \/ script_args.force) /\ script_ret.at = "returned")
                => /\ ~script_ret.none
                   /\ script_ret.builds = UndesiredNvrs

\* Two of three builds are undesired and force is off: the run ended after
\* get_undesired_builds returned None, although it was no dry run.
C27_Witness ==
    /\ script_ret.at = "end"
    /\ script_args.logged_in
    /\ ~script_args.dry_run
    /\ ~script_args.force
    /\ Len(script_args.builds) = 3
    /\ Cardinality(UndesiredNvrs) = 2
    /\ script_ret.none
    /\ script_calls = <<>>

-----------------------------------------------------------------------------
\* find_eln_failures.py: is a failed task the latest attempt of its package?
\* A tagged build is [package_name, task_id].

MaxTaskId == 3

MaxElnTagged == 2

FailedPackages == {"x", "y"}

TaskIds == 1..MaxTaskId

ElnBuild == [package_name : FailedPackages, task_id : TaskIds]

\* The builds tagged into eln-rebuild followed by those tagged into eln.
ElnListings ==
    UNION {[1..n -> ElnBuild] : n \in 0..MaxElnTagged}

\* get_eln_builds(session): package_name -> the builds listed with it, in
\* listing order; a name enters the dictionary with its first build.
RECURSIVE eln_builds_from(_, _)
eln_builds_from(builds, eln_builds) ==
    IF builds = <<>> THEN eln_builds
    ELSE LET build == Head(builds)
             sofar == IF DictHas(eln_builds, build.package_name)
                      THEN DictGet(eln_builds, build.package_name)
                      ELSE <<>>
         IN  eln_builds_from(Tail(builds),
                 DictPut(eln_builds, build.package_name, Append(sofar, build)))

get_eln_builds(builds) == eln_builds_from(builds, <<>>)

\* is_latest(eln_builds, package_name, task_id): the loop over the package's
\* builds returns False in its first round, whatever the build's task_id.
is_latest(eln_builds, package_name, task_id) ==
    IF ~DictHas(eln_builds, package_name) THEN TRUE
    ELSE IF Len(DictGet(eln_builds, package_name)) > 0 THEN FALSE
    ELSE TRUE

LatestInit ==
    /\ EngineParked
    /\ CmpIdle
    /\ \E builds \in ElnListings :
          script_args = [tagged |-> builds, fetched |-> FALSE, eln_builds |-> <<>>]
    /\ script_ret = [at |-> "cli", package_name |-> "x", task_id |-> 1,
                     value |-> FALSE]
    /\ script_calls = <<>>

\* cli: eln_builds = get_eln_builds(session)
GetElnBuilds ==
    /\ ~script_args.fetched
    /\ script_args' = [script_args EXCEPT
                          !.fetched = TRUE,
                          !.eln_builds = get_eln_builds(script_args.tagged)]
    /\ UNCHANGED <<script_ret, script_calls>>
    /\ UNCHANGED engineVars
    /\ UNCHANGED cmpVars

\* cli: is_latest(eln_builds, package_name, candidate['task_id']) for a failed
\* build of the user.
IsLatest(package_name, task_id) ==
    /\ script_args.fetched
    /\ script_ret' = [at |-> "returned", package_name |-> package_name,
                      task_id |-> task_id,
                      value |-> is_latest(script_args.eln_builds,
                                          package_name, task_id)]
    /\ UNCHANGED <<script_args, script_calls>>
    /\ UNCHANGED engineVars
    /\ UNCHANGED cmpVars

LatestNext ==
    \/ GetElnBuilds
    \/ \E package_name \in FailedPackages, task_id \in TaskIds :
          IsLatest(package_name, task_id)

SpecLatest == LatestInit /\ [][LatestNext]_vars

\* A tagged build of the package is newer than the task.
NewerTagged(package_name, task_id) ==
    \E i \in 1..Len(script_args.tagged) :
        /\ script_args.tagged[i].package_name = package_name
        /\ script_args.tagged[i].task_id > task_id

\* C28: is_latest returns True when no tagged build of the package has a
\* higher task_id than the failed task, and False only when one has.
C28_LatestByTaskId ==
    script_ret.at = "returned"
        => (script_ret.value <=> ~NewerTagged(script_ret.package_name,
                                              script_ret.task_id))

\* C28, what the code does: is_latest returns False exactly when the package
\* has a tagged build, newer or not.
C28_LatestIgnoresTaskId ==
    script_ret.at = "returned"
        => (script_ret.value <=>
               ~\E i \in 1..Len(script_args.tagged) :
                   script_args.tagged[i].package_name = script_ret.package_name)

\* The only tagged build of the package is older than the failed task, and
\* is_latest returned False.
C28_Witness ==
    /\ script_ret.at = "returned"
    /\ ~script_ret.value
    /\ script_ret.task_id = MaxTaskId
    /\ Len(script_args.tagged) = 1
    /\ script_args.tagged[1].package_name = script_ret.package_name
    /\ script_args.tagged[1].task_id < script_ret.task_id

-----------------------------------------------------------------------------
\* build-group/build-group.py: grouping builds that ran at the same time.
\* A build is [id, start_ts, completion_ts]; id is its place in the input.
\* Time stamps count hours.

MaxTs == 3

MaxBuilds == 3

TimeStamps == 0..MaxTs

\* A build does not complete before it starts.
BuildTimes ==
    {t \in [start_ts : TimeStamps, completion_ts : TimeStamps] :
        t.start_ts <= t.completion_ts}

BuildLists ==
    UNION {[1..n -> BuildTimes] : n \in 0..MaxBuilds}

NumberedBuilds(times) ==
    [i \in 1..Len(times) |->
        [id |-> i, start_ts |-> times[i].start_ts,
         completion_ts |-> times[i].completion_ts]]

\* The local time zone: the time stamp at which its clocks are set back one
\* hour, 0 for a zone whose clocks are not set back in the period.
Zones == TimeStamps

\* datetime.fromtimestamp(ts): the wall clock of the local zone at ts, without
\* zone; before the clocks are set back it is one hour ahead.
fromtimestamp(ts, zone) ==
    IF ts < zone THEN ts + 1 ELSE ts

\* sorted(list)
RECURSIVE insert_sorted(_, _)
insert_sorted(x, s) ==
    IF s = <<>> THEN <<x>>
    ELSE IF x < Head(s) THEN <<x>> \o s
    ELSE <<Head(s)>> \o insert_sorted(x, Tail(s))

RECURSIVE sorted_list(_)
sorted_list(s) ==
    IF s = <<>> THEN <<>>
    ELSE insert_sorted(s[Len(s)], sorted_list(SubSeq(s, 1, Len(s) - 1)))

\* group_rebuild_list: the loop over completion_times.
RECURSIVE rebuild_groups_from(_, _, _, _)
rebuild_groups_from(completion_times, builds, rebuild_groups, zone) ==
    IF completion_times = <<>> THEN rebuild_groups
    ELSE LET time == Head(completion_times)
             started(build) == fromtimestamp(build.start_ts, zone) < time
             not_started(build) == ~started(build)
             rebuild_group == SelectSeq(builds, started)
             reminder == SelectSeq(builds, not_started)
         IN  IF rebuild_group # <<>>
             THEN rebuild_groups_from(Tail(completion_times), reminder,
                                      Append(rebuild_groups, rebuild_group), zone)
             ELSE rebuild_groups_from(Tail(completion_times), builds,
                                      rebuild_groups, zone)

\* group_rebuild_list(builds), run in the given local zone.
group_rebuild_list(builds, zone) ==
    LET completion_times ==
            sorted_list([i \in 1..Len(builds) |->
                            fromtimestamp(builds[i].completion_ts, zone)])
    IN  rebuild_groups_from(completion_times, builds, <<>>, zone)

GroupInit ==
    /\ EngineParked
    /\ CmpIdle
    /\ \E times \in BuildLists, zone \in Zones :
          script_args = [builds |-> NumberedBuilds(times), zone |-> zone]
    /\ script_ret = [at |-> "call", rebuild_groups |-> <<>>]
    /\ script_calls = <<>>

\* rebuild_groups = group_rebuild_list(builds)
GroupRebuildList ==
    /\ script_ret.at = "call"
    /\ script_ret' = [at |-> "returned",
                      rebuild_groups |-> group_rebuild_list(script_args.builds,
                                                            script_args.zone)]
    /\ UNCHANGED <<script_args, script_calls>>
    /\ UNCHANGED engineVars
    /\ UNCHANGED cmpVars

GroupNext == GroupRebuildList

SpecGroup == GroupInit /\ [][GroupNext]_vars

\* Every input build started before it completed.
StartedBeforeCompleted ==
    \A i \in 1..Len(script_args.builds) :
        script_args.builds[i].start_ts < script_args.builds[i].completion_ts

\* The ids of the builds of group g, and of the groups before it.
GroupIds(g) ==
    {script_ret.rebuild_groups[g][j].id :
        j \in 1..Len(script_ret.rebuild_groups[g])}

GroupedBefore(g) == UNION {GroupIds(h) : h \in 1..(g - 1)}

\* The returned groups partition the input, none is empty, each holds exactly
\* the builds not grouped before that started earlier than one of the
\* completion time stamps, and in a group every build started before any
\* build of the group completed.
GroupsPartition ==
    LET builds == script_args.builds
        groups == script_ret.rebuild_groups
    IN  /\ \A i \in 1..Len(builds) :
              Cardinality({<<g, j>> \in (1..Len(groups)) \X (1..Len(builds)) :
                              j <= Len(groups[g]) /\ groups[g][j] = builds[i]}) = 1
        /\ \A g \in 1..Len(groups) : groups[g] # <<>>
        /\ \A g \in 1..Len(groups) :
              \E k \in 1..Len(builds) :
                  GroupIds(g) = {builds[i].id : i \in {n \in 1..Len(builds) :
                                    /\ builds[n].id \notin GroupedBefore(g)
                                    /\ builds[n].start_ts < builds[k].completion_ts}}
        /\ \A g \in 1..Len(groups) :
              \A a \in 1..Len(groups[g]), b \in 1..Len(groups[g]) :
                  groups[g][a].start_ts < groups[g][b].completion_ts

\* C29: for builds that each started before they completed, group_rebuild_list
\* returns a partition of its input into non-empty groups, each made of the
\* builds not yet grouped that started before the completion time stamp that
\* opened it, so that in a group every build started before any completed.
C29_GroupsPartitionInput ==
    (script_ret.at = "returned" /\ StartedBeforeCompleted) => GroupsPartition

\* C29 where the local clocks are not set back: the claim holds.
C29_GroupsPartitionSteadyClock ==
    (script_ret.at = "returned" /\ StartedBeforeCompleted /\ script_args.zone = 0)
        => GroupsPartition

\* One build that started in the hour before the clocks were set back and
\* completed in the hour after: no group holds it.
C29_Witness ==
    /\ script_ret.at = "returned"
    /\ Len(script_args.builds) = 1
    /\ script_args.builds[1].start_ts < script_args.zone
    /\ script_args.builds[1].completion_ts = script_args.zone
    /\ script_ret.rebuild_groups = <<>>

\* Three overlapping and one later build under a steady clock: two groups.
C29_SteadyWitness ==
    /\ script_ret.at = "returned"
    /\ script_args.zone = 0
    /\ StartedBeforeCompleted
    /\ Len(script_args.builds) = MaxBuilds
    /\ Len(script_ret.rebuild_groups) = 2
    /\ Len(script_ret.rebuild_groups[1]) = 2

=============================================================================
